---- MODULE Spec2Model ----
(***************************************************************************)
(* Model of class Filters (opencv_filtering/opencv/logic_filters.py): the  *)
(* filter registry, the cyclic selection (set_filter / next_filter /       *)
(* last_filter), the per-frame dispatch (convert) and the cross-frame      *)
(* state of the Motion, Background and Optical Flow filters.               *)
(*                                                                         *)
(* Python values.  None is the empty sequence and any other value v is     *)
(* <<v>>.  An image is a record: its shape, the operation that produced    *)
(* it (op), the pixel content of its operands (a, b), and what was drawn   *)
(* on it (circles, lines).  The OpenCV routines are external: each is      *)
(* modelled by the image term it yields, and the ones the source guards    *)
(* with try/except (feature detectors, Lucas-Kanade tracking) may fail,    *)
(* as chosen by the environment in each convert call.                      *)
(***************************************************************************)
EXTENDS Integers, Sequences, FiniteSets, TLC

\* ---- bounds of the model ----
MaxSize == 2      \* frame sizes (height/width classes) the video source may deliver
MaxPix == 2      \* distinct pixel contents per size; content 1 is a flat image without corners
MaxLoc == 1      \* locations at which corner points may be found and tracked

None == <<>>
Some(v) == <<v>>

\* ---- images ----
Img(shape, op, a, b) ==
    [shape |-> shape, op |-> op, a |-> a, b |-> b, circles |-> {}, lines |-> {}]

Sizes == 1..MaxSize
Pixels == 1..MaxPix
Locs == 1..MaxLoc

\* frames delivered by the video source: 3-channel BGR buffers
Frames == {Img(<<s, s, 3>>, "bgr", p, 0) : s \in Sizes, p \in Pixels}

\* cv2.cvtColor(img, cv2.COLOR_BGR2GRAY): drops the channel axis
BGR2GRAY(img) == Img(<<img.shape[1], img.shape[2]>>, "gray", img.a, 0)

\* ---- the registry ----
container == <<
    [name |-> "Unchanged",    func |-> "filter_unchanged",  desc |-> "Unchanged original image"],
    [name |-> "Canny",        func |-> "filter_canny",      desc |-> "Canny edge detection"],
    [name |-> "Threshold",    func |-> "filter_threshold",  desc |-> "Adaptive Gaussian threshold"],
    [name |-> "Harris",       func |-> "filter_harris",     desc |-> "Harris corner detection"],
    [name |-> "SIFT",         func |-> "filter_sift",       desc |-> "Scale-Invariant Feature Transform (SIFT), patented"],
    [name |-> "SURF",         func |-> "filter_surf",       desc |-> "Speeded-Up Robust Features (SURF), patented"],
    [name |-> "ORB",          func |-> "filter_orb",        desc |-> "Oriented FAST and Rotated BRIEF (ORB), free"],
    [name |-> "BRIEF",        func |-> "filter_brief",      desc |-> "BRIEF descriptors with the help of CenSurE (STAR) detector"],
    [name |-> "Contours",     func |-> "filter_contours",   desc |-> "Draw contours with mean colors inside them"],
    [name |-> "Blur",         func |-> "filter_blur",       desc |-> "Blur (Gaussian, median, bilateral or classic)"],
    [name |-> "Motion",       func |-> "filter_motion",     desc |-> "Motion detection"],
    [name |-> "Background",   func |-> "filter_background", desc |-> "Background subtractor (KNN, MOG2, MOG or GMG)"],
    [name |-> "Skin",         func |-> "filter_skin",       desc |-> "Skin tones detection"],
    [name |-> "Optical Flow", func |-> "filter_optflow",    desc |-> "Lucas Kanade optical flow"] >>

N == Len(container)

\* Python list indexing: container[i] raises IndexError unless -N <= i < N,
\* and a negative i counts from the end.
IndexOK(i) == -N <= i /\ i < N
At(i) == IF i < 0 THEN container[N + i + 1] ELSE container[i + 1]

\* the string handed to master.title
Title(i) == <<"OpenCV Filtering - ", At(i).desc>>

\* arguments given to set_filter: every registry index, the two the caller
\* contract names (-1 and N), and the ends of Python's negative range
SetArgs == (0..N) \cup {-1, -N, -(N + 1)}

\* filter_num values the constructor is started with (default 0, or a configured registry index)
FilterNums == 0..(N - 1)

VARIABLES
    current_filter,         \* self.current_filter
    frame,                  \* self.frame
    previous,               \* self.previous
    background_subtractor,  \* self.background_subtractor
    opt_flow,               \* self.opt_flow['points'], self.opt_flow['mask']
    title,                  \* last string passed to self.master.title
    ret,                    \* outcome of the last call: value returned or exception raised
    call,                   \* the last call: its name, its argument, the selection a step started
                            \* from, and for convert the name of the call before it
    lib,                    \* what the fallible library call of the last convert reported
    run                     \* history kept under SpecCycle: the selections of consecutive next_filter calls

vars == <<current_filter, frame, previous, background_subtractor, opt_flow,
          title, ret, call, lib, run>>

Returned(v) == [exc |-> "", val |-> v]
Raised(e) == [exc |-> e, val |-> None]

\* ---- Filters.__init__ ----
Construct(filter_num) ==
    /\ current_filter = filter_num
    /\ frame = None
    /\ previous = None
    /\ background_subtractor = None
    /\ opt_flow = [points |-> None, mask |-> None]
    /\ title = Title(filter_num)
    /\ ret = Returned(None)
    /\ call = [op |-> "__init__", arg |-> filter_num, from |-> filter_num, after |-> ""]
    /\ lib = ""

Init == \E filter_num \in FilterNums : Construct(filter_num) /\ run = <<>>

\* ---- Filters.get_filter ----
get_filter == At(current_filter).name

\* ---- Filters.set_filter ----
\* The body of set_filter(current), shared by the three selection calls:
\* previous is cleared and current_filter assigned before the registry is
\* read, so an IndexError (raised by get_filter inside the log message)
\* leaves both assignments in place and the title untouched.
\* variant of set_filter that loses the assignment of line 62
SetFilterBodyNoAssign(current) ==
    /\ previous' = None
    /\ current_filter' = current_filter
    /\ IF IndexOK(current)
         THEN /\ title' = Title(current)
              /\ ret' = Returned(None)
         ELSE /\ title' = title
              /\ ret' = Raised("IndexError")
    /\ lib' = ""
    /\ UNCHANGED <<frame, background_subtractor, opt_flow>>

\* variant of set_filter that loses the reset of line 61
SetFilterBodyKeepsPrevious(current) ==
    /\ previous' = previous
    /\ current_filter' = current
    /\ IF IndexOK(current)
         THEN /\ title' = Title(current)
              /\ ret' = Returned(None)
         ELSE /\ title' = title
              /\ ret' = Raised("IndexError")
    /\ lib' = ""
    /\ UNCHANGED <<frame, background_subtractor, opt_flow>>

SetFilterBody(current) ==
    /\ previous' = None
    /\ current_filter' = current
    /\ IF IndexOK(current)
         THEN /\ title' = Title(current)
              /\ ret' = Returned(None)
         ELSE /\ title' = title
              /\ ret' = Raised("IndexError")
    /\ lib' = ""
    /\ UNCHANGED <<frame, background_subtractor, opt_flow>>

set_filter(current) ==
    /\ SetFilterBody(current)
    /\ call' = [op |-> "set_filter", arg |-> current, from |-> current, after |-> ""]

\* ---- Filters.next_filter ----
\* variant of next_filter without the wraparound
NextIndexNoWrap(i) == i + 1

NextIndex(i) == (i + 1) % N

next_filter ==
    /\ SetFilterBody(NextIndex(current_filter))
    /\ call' = [op |-> "next_filter", arg |-> 0, from |-> current_filter, after |-> ""]

\* ---- Filters.last_filter ----
\* variant of last_filter without the wraparound
LastIndexNoWrap(i) == i - 1

LastIndex(i) == (i - 1) % N

last_filter ==
    /\ SetFilterBody(LastIndex(current_filter))
    /\ call' = [op |-> "last_filter", arg |-> 0, from |-> current_filter, after |-> ""]

\* ---- outcome of one transform ----
\* What a filter function leaves behind: the value returned or exception
\* raised, and the fields of self after it.
Effect(r, fr, prev, bg, of, l) ==
    [ret |-> r, frame |-> fr, previous |-> prev,
     background_subtractor |-> bg, opt_flow |-> of, lib |-> l]

\* a filter that only computes an image from self.frame
Pure(f, img) ==
    Effect(Returned(Some(img)), Some(f), previous, background_subtractor, opt_flow, "")

\* ---- what the library reports in one convert call ----
\* res: the fallible call succeeds or raises cv2.error; st: the points whose
\* Lucas-Kanade status is 1.
NoLib == [res |-> "ok", st |-> {}]
DetectorChoices == {[res |-> r, st |-> {}] : r \in {"ok", "cv2.error"}}
TrackingChoices ==
    {[res |-> "ok", st |-> s] : s \in SUBSET Locs} \cup {[res |-> "cv2.error", st |-> {}]}

LibChoices(func) ==
    IF func \in {"filter_sift", "filter_surf", "filter_orb", "filter_brief"}
        THEN DetectorChoices
    ELSE IF func = "filter_optflow" THEN TrackingChoices
    ELSE {NoLib}

\* ---- stateless filters ----
filter_unchanged(f, o) == Pure(f, f)

\* variant of filter_canny that keeps its gray image as the previous frame
filter_canny_StoresGray(f, o) ==
    Effect(Returned(Some(Img(BGR2GRAY(f).shape, "Canny", f.a, 0))), Some(f),
           Some(BGR2GRAY(f)), background_subtractor, opt_flow, "")

filter_canny(f, o) == Pure(f, Img(BGR2GRAY(f).shape, "Canny", f.a, 0))

filter_threshold(f, o) == Pure(f, Img(BGR2GRAY(f).shape, "adaptiveThreshold", f.a, 0))

\* the corners are painted into self.frame itself, which is then returned
filter_harris(f, o) ==
    LET marked == [f EXCEPT !.op = "cornerHarris"]
    IN  Effect(Returned(Some(marked)), Some(marked), previous,
               background_subtractor, opt_flow, "")

\* drawKeypoints(image=self.frame, outImage=self.frame): draws into self.frame;
\* a failure of the detector propagates to the caller of get_features
get_features(f, xfeatures, o) ==
    IF o.res = "cv2.error"
        THEN Effect(Raised("cv2.error"), Some(f), previous,
                    background_subtractor, opt_flow, "cv2.error")
        ELSE LET drawn == [f EXCEPT !.op = "drawKeypoints"]
             IN  Effect(Returned(Some(drawn)), Some(drawn), previous,
                        background_subtractor, opt_flow, "ok")

\* variant of filter_sift / filter_surf without the except clause
CatchNothing(f, e) == e

\* try: get_features(...)  except cv2.error: return self.frame
CatchCv2Error(f, e) ==
    IF e.ret.exc = "cv2.error"
        THEN [e EXCEPT !.ret = Returned(Some(f))]
        ELSE e

filter_sift(f, o) == CatchCv2Error(f, get_features(f, "SIFT", o))

filter_surf(f, o) == CatchCv2Error(f, get_features(f, "SURF", o))

filter_orb(f, o) == get_features(f, "ORB", o)

filter_brief(f, o) == get_features(f, "BRIEF", o)

filter_contours(f, o) == Pure(f, Img(f.shape, "drawContours", f.a, 0))

filter_blur(f, o) == Pure(f, Img(f.shape, "blur", f.a, 0))

filter_skin(f, o) == Pure(f, Img(f.shape, "skin", f.a, 0))

\* ---- Filters.filter_motion ----
absdiff(gray1, gray2) == Img(gray1.shape, "absdiff", gray1.a, gray2.a)

\* variant of filter_motion that remembers the frame before it reads the previous one
filter_motion_StoresFirst(f, o) ==
    IF previous = None \/ previous[1].shape # f.shape
        THEN Effect(Returned(Some(f)), Some(f), Some(f),
                    background_subtractor, opt_flow, "")
        ELSE LET gray1 == BGR2GRAY(f)
                 gray2 == BGR2GRAY(f)
             IN  Effect(Returned(Some(absdiff(gray1, gray2))), Some(f), Some(f),
                        background_subtractor, opt_flow, "")

filter_motion(f, o) ==
    IF previous = None \/ previous[1].shape # f.shape
        THEN Effect(Returned(Some(f)), Some(f), Some(f),
                    background_subtractor, opt_flow, "")
        ELSE LET gray1 == BGR2GRAY(f)
                 gray2 == BGR2GRAY(previous[1])
             IN  Effect(Returned(Some(absdiff(gray1, gray2))), Some(f), Some(f),
                        background_subtractor, opt_flow, "")

\* ---- Filters.filter_background ----
\* lib records whether this call ran cv2.createBackgroundSubtractorMOG2
\* variant of filter_background that builds a model for every frame
filter_background_PerFrame(f, o) ==
    Effect(Returned(Some(Img(f.shape, "foreground", f.a, 0))), Some(f),
           previous, Some("MOG2"), opt_flow, "created")

filter_background(f, o) ==
    LET subtractor == IF background_subtractor = None
                        THEN Some("MOG2")
                        ELSE background_subtractor
    IN  Effect(Returned(Some(Img(f.shape, "foreground", f.a, 0))), Some(f),
               previous, subtractor, opt_flow,
               IF background_subtractor = None THEN "created" ELSE "")

\* ---- Filters.filter_optflow ----
\* cv2.goodFeaturesToTrack: None for an image without corners
goodFeaturesToTrack(gray) == IF gray.a = 1 THEN None ELSE Some(Locs)

\* np.zeros_like(self.frame.copy())
zeros_like(img) == [shape |-> img.shape, lines |-> {}]

\* where a tracked point is found in the new frame: the scene drifts by one location
Move(p) == (p % MaxLoc) + 1

\* cv2.add(frame, mask): the frame with the circles, overlaid with the trail mask
add(img, circles, mask) == [img EXCEPT !.circles = circles, !.lines = mask.lines]

\* variant of the handler that loses the reset of line 238
optflow_except_KeepsPrevious(f, prev1, seeded, l) ==
    Effect(Returned(Some(f)), Some(f), prev1, background_subtractor, seeded, l)

\* except (TypeError, cv2.error): self.previous = None; return self.frame
optflow_except(f, prev1, seeded, l) ==
    Effect(Returned(Some(f)), Some(f), None, background_subtractor, seeded, l)

\* variant of filter_optflow that starts a new mask for every frame
filter_optflow_NewMask(f, o) ==
    LET gray   == BGR2GRAY(f)
        reseed == previous = None \/ previous[1].shape # gray.shape
        prev1  == IF reseed THEN Some(gray) ELSE previous
        pts1   == IF reseed THEN goodFeaturesToTrack(gray) ELSE opt_flow.points
        mask1  == Some(zeros_like(f))
        seeded == [points |-> pts1, mask |-> mask1]
        failed(l) == optflow_except(f, prev1, seeded, l)
    IN  IF o.res = "cv2.error" THEN failed("cv2.error")
        ELSE IF pts1 = None \/ mask1 = None THEN failed("None")
        ELSE IF pts1[1] = {} THEN failed("None")
        ELSE LET good_old == pts1[1] \cap o.st
                 good_new == {Move(p) : p \in good_old}
                 drawn    == [mask1[1] EXCEPT
                                !.lines = @ \cup {<<Move(p), p>> : p \in good_old}]
             IN  Effect(Returned(Some(add(f, good_new, drawn))), Some(f), Some(gray),
                        background_subtractor,
                        [points |-> Some(good_new), mask |-> Some(drawn)], "ok")

\* variant of filter_optflow that re-seeds only when there is no previous frame
filter_optflow_NoShapeCheck(f, o) ==
    LET gray   == BGR2GRAY(f)
        reseed == previous = None
        prev1  == IF reseed THEN Some(gray) ELSE previous
        pts1   == IF reseed THEN goodFeaturesToTrack(gray) ELSE opt_flow.points
        mask1  == IF reseed THEN Some(zeros_like(f)) ELSE opt_flow.mask
        seeded == [points |-> pts1, mask |-> mask1]
        failed(l) == optflow_except(f, prev1, seeded, l)
    IN  IF o.res = "cv2.error" THEN failed("cv2.error")
        ELSE IF pts1 = None \/ mask1 = None THEN failed("None")
        ELSE IF pts1[1] = {} THEN failed("None")
        ELSE LET good_old == pts1[1] \cap o.st
                 good_new == {Move(p) : p \in good_old}
                 drawn    == [mask1[1] EXCEPT
                                !.lines = @ \cup {<<Move(p), p>> : p \in good_old}]
             IN  Effect(Returned(Some(add(f, good_new, drawn))), Some(f), Some(gray),
                        background_subtractor,
                        [points |-> Some(good_new), mask |-> Some(drawn)], "ok")

filter_optflow(f, o) ==
    LET gray   == BGR2GRAY(f)
        reseed == previous = None \/ previous[1].shape # gray.shape
        prev1  == IF reseed THEN Some(gray) ELSE previous
        pts1   == IF reseed THEN goodFeaturesToTrack(gray) ELSE opt_flow.points
        mask1  == IF reseed THEN Some(zeros_like(f)) ELSE opt_flow.mask
        seeded == [points |-> pts1, mask |-> mask1]
        failed(l) == optflow_except(f, prev1, seeded, l)
    IN  IF o.res = "cv2.error" THEN failed("cv2.error")
        \* nothing to track: calcOpticalFlowPyrLK hands back None, points[st == 1] raises TypeError
        ELSE IF pts1 = None \/ mask1 = None THEN failed("None")
        ELSE IF pts1[1] = {} THEN failed("None")
        ELSE LET good_old == pts1[1] \cap o.st
                 good_new == {Move(p) : p \in good_old}
                 drawn    == [mask1[1] EXCEPT
                                !.lines = @ \cup {<<Move(p), p>> : p \in good_old}]
             IN  Effect(Returned(Some(add(f, good_new, drawn))), Some(f), Some(gray),
                        background_subtractor,
                        [points |-> Some(good_new), mask |-> Some(drawn)], "ok")

\* ---- Filters.convert ----
Apply(func, f, o) ==
    CASE func = "filter_unchanged"  -> filter_unchanged(f, o)
      [] func = "filter_canny"      -> filter_canny(f, o)
      [] func = "filter_threshold"  -> filter_threshold(f, o)
      [] func = "filter_harris"     -> filter_harris(f, o)
      [] func = "filter_sift"       -> filter_sift(f, o)
      [] func = "filter_surf"       -> filter_surf(f, o)
      [] func = "filter_orb"        -> filter_orb(f, o)
      [] func = "filter_brief"      -> filter_brief(f, o)
      [] func = "filter_contours"   -> filter_contours(f, o)
      [] func = "filter_blur"       -> filter_blur(f, o)
      [] func = "filter_motion"     -> filter_motion(f, o)
      [] func = "filter_background" -> filter_background(f, o)
      [] func = "filter_skin"       -> filter_skin(f, o)
      [] func = "filter_optflow"    -> filter_optflow(f, o)

\* self.frame = frame; return self.container[self.current_filter][1]()
ConvertEffect(f, o) ==
    IF IndexOK(current_filter)
        THEN Apply(At(current_filter).func, f, o)
        ELSE Effect(Raised("IndexError"), Some(f), previous,
                    background_subtractor, opt_flow, "")

\* variant of convert that falls back to the first filter when the transform raises
convert_ResetsOnError(f) ==
    \E o \in (IF IndexOK(current_filter) THEN LibChoices(At(current_filter).func) ELSE {NoLib}) :
        LET e == ConvertEffect(f, o)
        IN  /\ ret' = e.ret
            /\ frame' = e.frame
            /\ previous' = e.previous
            /\ background_subtractor' = e.background_subtractor
            /\ opt_flow' = e.opt_flow
            /\ lib' = e.lib
            /\ call' = [op |-> "convert", arg |-> 0, from |-> current_filter, after |-> call.op]
            /\ current_filter' = IF e.ret.exc = "" THEN current_filter ELSE 0
            /\ UNCHANGED title

convert(f) ==
    \E o \in (IF IndexOK(current_filter) THEN LibChoices(At(current_filter).func) ELSE {NoLib}) :
        LET e == ConvertEffect(f, o)
        IN  /\ ret' = e.ret
            /\ frame' = e.frame
            /\ previous' = e.previous
            /\ background_subtractor' = e.background_subtractor
            /\ opt_flow' = e.opt_flow
            /\ lib' = e.lib
            /\ call' = [op |-> "convert", arg |-> 0, from |-> current_filter, after |-> call.op]
            /\ UNCHANGED <<current_filter, title>>

Next ==
    \/ \E current \in SetArgs : set_filter(current) /\ UNCHANGED run
    \/ next_filter /\ UNCHANGED run
    \/ last_filter /\ UNCHANGED run
    \/ \E f \in Frames : convert(f) /\ UNCHANGED run

Spec == Init /\ [][Next]_vars

\* ---- the same calls, with the history of consecutive next_filter calls ----
\* run starts at the selection a set_filter or last_filter call (or the
\* constructor) left, and each next_filter call appends the selection it
\* made; after N calls the next one starts a new run.  The frames converted
\* in between are those of one size.
CycleFrames == {f \in Frames : f.shape[1] = 1}

NextCycle ==
    \/ \E current \in SetArgs : set_filter(current) /\ run' = <<current>>
    \/ next_filter /\ run' = IF Len(run) > N
                                THEN <<current_filter, current_filter'>>
                                ELSE Append(run, current_filter')
    \/ last_filter /\ run' = <<current_filter'>>
    \/ \E f \in CycleFrames : convert(f) /\ UNCHANGED run

InitCycle == \E filter_num \in FilterNums : Construct(filter_num) /\ run = <<filter_num>>

SpecCycle == InitCycle /\ [][NextCycle]_vars

\* ------------------------------------------------------------------------
\* Properties
\* ------------------------------------------------------------------------
SelectionCalls == {"set_filter", "next_filter", "last_filter"}
Valid == 0..(N - 1)

\* the filter the current selection dispatches to, "" when the index is out of the list's range
Selected == IF IndexOK(current_filter) THEN At(current_filter).name ELSE ""

\* C1: in every reachable state the selected index lies in [0, len(container)).
\* Fails: set_filter assigns any integer it is given.
C1_SelectionInRange == 0 <= current_filter /\ current_filter < N

\* C2: set_filter with an index outside [0, len(container)) fails with an
\* invalid-index error and leaves the selected index and the stored previous
\* frame as they were.  Fails: the assignments come before the registry lookup,
\* and Python accepts the negative indices -N..-1.
C2_InvalidIndexRejected ==
    [][(call'.op = "set_filter" /\ call'.arg \notin Valid)
          => /\ ret'.exc # ""
             /\ current_filter' = current_filter
             /\ previous' = previous]_vars

\* C3: convert never raises to its caller and always returns a frame, whatever
\* the selected filter and whatever failure the library reports.
\* Fails: filter_orb and filter_brief do not catch the detector's cv2.error.
C3_ConvertNeverRaises ==
    call.op = "convert" => (ret.exc = "" /\ ret.val # None)

\* C4: from a valid index, last_filter right after next_filter, and next_filter
\* right after last_filter, lead back to the index the pair started from;
\* next_filter at the last index selects 0 and last_filter at 0 selects the
\* last index.
C4_StepsAreInverse ==
    [][/\ (call.op = "next_filter" /\ call.from \in Valid /\ call'.op = "last_filter")
            => (current_filter' = call.from /\ ret'.exc = "")
       /\ (call.op = "last_filter" /\ call.from \in Valid /\ call'.op = "next_filter")
            => (current_filter' = call.from /\ ret'.exc = "")
       /\ (call'.op = "next_filter" /\ current_filter = N - 1) => current_filter' = 0
       /\ (call'.op = "last_filter" /\ current_filter = 0) => current_filter' = N - 1]_vars

\* last_filter has stepped back from index 0 to the last index
C4_Witness ==
    call.op = "last_filter" /\ call.from = 0 /\ current_filter = N - 1 /\ ret.exc = ""

\* C5: N consecutive next_filter calls from a valid index, with convert calls
\* in between, end at the starting index, and the N selections made on the
\* way are all the indices, each once.
C5_FullCycle ==
    (Len(run) = N + 1 /\ run[1] \in Valid)
        => /\ run[N + 1] = run[1]
           /\ current_filter = run[1]
           /\ {run[j] : j \in 2..(N + 1)} = Valid

\* a full cycle has been made from index 5, frames having been converted
C5_Witness ==
    /\ Len(run) = N + 1
    /\ run[1] = 5
    /\ call.op = "convert"
    /\ call.after = "next_filter"

\* C6: set_filter(i) with i in [0, len(container)) succeeds from every state,
\* and afterwards i is the selection and get_filter is the name registered at i.
C6_SetSelects ==
    (call.op = "set_filter" /\ call.arg \in Valid)
        => /\ ret.exc = ""
           /\ current_filter = call.arg
           /\ get_filter = container[call.arg + 1].name

\* set_filter(7) has just returned, called in a state in which frames had been converted
C6_Witness ==
    call.op = "set_filter" /\ call.arg = 7 /\ current_filter = 7 /\ frame # None

\* C7: after any set_filter, next_filter or last_filter call all cross-frame
\* state is empty: previous, the background subtractor, and the optical-flow
\* points and mask are None.  Fails: set_filter resets previous only.
C7_SelectionClearsState ==
    call.op \in SelectionCalls
        => /\ previous = None
           /\ background_subtractor = None
           /\ opt_flow.points = None
           /\ opt_flow.mask = None

\* C8 as stated: the first convert after a selection call that selects Motion
\* or Optical Flow returns the unmodified input frame.
C8_FirstConvertUnmodified ==
    (call.op = "convert" /\ call.after \in SelectionCalls
        /\ current_filter \in Valid
        /\ Selected \in {"Motion", "Optical Flow"})
        => (ret = Returned(frame) /\ frame[1] \in Frames)

\* C8, amended: the first convert after a selection call returns the
\* unmodified input frame when Motion is selected; when Optical Flow is
\* selected it seeds the history from the incoming frame and tracks at once,
\* returning the unmodified input frame if that tracking fails and otherwise
\* the input frame overlaid with what this one call drew: a circle and a trail
\* segment for each point it tracked.
C8_FirstConvert ==
    (call.op = "convert" /\ call.after \in SelectionCalls)
        => /\ Selected = "Motion"
                => (ret = Returned(frame) /\ frame[1] \in Frames /\ previous = frame)
           /\ Selected = "Optical Flow"
                => /\ frame[1] \in Frames
                   /\ ret.exc = ""
                   /\ opt_flow.mask # None
                   /\ opt_flow.mask[1].shape = frame[1].shape
                   /\ IF lib = "ok"
                        THEN /\ ret.val = Some(add(frame[1], opt_flow.points[1], opt_flow.mask[1]))
                             /\ Cardinality(opt_flow.mask[1].lines)
                                    = Cardinality(opt_flow.points[1])
                             /\ previous = Some(BGR2GRAY(frame[1]))
                        ELSE /\ ret.val = frame
                             /\ opt_flow.mask[1].lines = {}
                             /\ previous = None

\* the first convert after a selection call, Optical Flow selected, has drawn tracked points
C8_Witness ==
    /\ call.op = "convert"
    /\ call.after \in SelectionCalls
    /\ Selected = "Optical Flow"
    /\ lib = "ok"
    /\ ret.val # None
    /\ ret.val[1].circles # {}

\* C9: with Motion selected, a convert call made with no previous frame, or
\* with one of another shape, returns the incoming frame unchanged; every other
\* convert call returns the difference between the incoming frame and the frame
\* given to the convert call just before it; either way the incoming frame
\* becomes the previous one.
C9_MotionDifference ==
    [][(call'.op = "convert" /\ Selected = "Motion")
          => /\ frame'[1] \in Frames
             /\ ret'.exc = ""
             /\ previous' = frame'
             /\ IF previous = None \/ previous[1].shape # frame'[1].shape
                  THEN ret'.val = frame'
                  ELSE /\ call.op = "convert"
                       /\ ret'.val = Some(absdiff(BGR2GRAY(frame'[1]), BGR2GRAY(frame[1])))]_vars

\* Motion has returned the difference of two frames of different content
C9_Witness ==
    /\ call.op = "convert"
    /\ Selected = "Motion"
    /\ ret.val # None
    /\ ret.val[1].op = "absdiff"
    /\ ret.val[1].a # ret.val[1].b

\* the tracking step of the last convert call found no point with status 1
NoPointTracked == lib = "ok" /\ opt_flow.points = Some({})

C11_PatentedFallback ==
    (call.op = "convert" /\ Selected \in {"SIFT", "SURF"} /\ lib = "cv2.error")
        => (ret = Returned(frame) /\ frame[1] \in Frames)

\* SURF is selected, the detector has failed and the frame came back as given
C11_Witness ==
    /\ call.op = "convert"
    /\ Selected = "SURF"
    /\ lib = "cv2.error"
    /\ ret = Returned(frame)
    /\ frame[1] \in Frames

\* C12: in every reachable state the last title sent to the window is
\* 'OpenCV Filtering - ' followed by the description of the current filter.
\* Fails: a set_filter call that raises IndexError has changed current_filter
\* and sent no title.
C12_TitleIsCurrent ==
    /\ IndexOK(current_filter)
    /\ title = Title(current_filter)

\* the shape the stored previous frame is compared with when frame f comes in
CompareShape(f) == IF Selected = "Motion" THEN f.shape ELSE BGR2GRAY(f).shape

\* what the selected filter stores as previous for frame f
StoredAs(f) == IF Selected = "Motion" THEN f ELSE BGR2GRAY(f)

\* C13: whenever Motion or Optical Flow computes with the stored previous
\* frame, that frame was stored by the same filter since the last selection
\* change (by the convert call just before, under the same selection); a
\* stored frame is held only while the filter that stored it is selected.
C13_PreviousOwnedBySelection ==
    [][/\ (call'.op = "convert" /\ Selected \in {"Motion", "Optical Flow"}
            /\ previous # None /\ previous[1].shape = CompareShape(frame'[1]))
            => /\ call.op = "convert"
               /\ call.from = current_filter
               /\ frame[1] \in Frames
               /\ previous = Some(StoredAs(frame[1]))
       /\ previous' # None
            => \/ Selected' = "Motion" /\ previous'[1].op = "bgr"
               \/ Selected' = "Optical Flow" /\ previous'[1].op = "gray"]_vars

\* Optical Flow has tracked against the frame stored by its previous call:
\* the trail drawn earlier is still on the mask and no point was tracked now
C13_Witness ==
    /\ call.op = "convert"
    /\ call.after = "convert"
    /\ Selected = "Optical Flow"
    /\ lib = "ok"
    /\ opt_flow.points = Some({})
    /\ opt_flow.mask[1].lines # {}

\* C14: cached history is never used against a frame of another shape.  Motion
\* takes a difference only with a previous frame of the incoming frame's
\* shape; Optical Flow tracks and draws only with a previous frame and a mask
\* of the incoming frame's shape, and on a shape change it re-seeds previous,
\* points and mask from the incoming frame.
C14_ShapeChecked ==
    [][call'.op = "convert"
          => /\ (Selected = "Motion" /\ ret'.val # None /\ ret'.val[1].op = "absdiff")
                  => (previous # None /\ previous[1].shape = frame'[1].shape)
             /\ Selected = "Optical Flow"
                  => /\ opt_flow'.mask # None
                     /\ opt_flow'.mask[1].shape = frame'[1].shape
                     /\ (previous # None /\ previous[1].shape = BGR2GRAY(frame'[1]).shape)
                          => (opt_flow.mask # None /\ opt_flow.mask[1].shape = frame'[1].shape)
                     /\ (previous # None /\ previous[1].shape # BGR2GRAY(frame'[1]).shape)
                          => IF lib' = "ok"
                               THEN /\ previous' = Some(BGR2GRAY(frame'[1]))
                                    /\ opt_flow'.points[1] \subseteq
                                          {Move(p) : p \in goodFeaturesToTrack(BGR2GRAY(frame'[1]))[1]}
                                    /\ Cardinality(opt_flow'.mask[1].lines)
                                          = Cardinality(opt_flow'.points[1])
                               ELSE /\ previous' = None
                                    /\ opt_flow' = [points |-> goodFeaturesToTrack(BGR2GRAY(frame'[1])),
                                                    mask |-> Some(zeros_like(frame'[1]))]]_vars

\* Motion, called twice in a row, has returned the second frame unchanged: its shape was new
C14_Witness ==
    /\ call.op = "convert"
    /\ call.after = "convert"
    /\ Selected = "Motion"
    /\ ret = Returned(frame)
    /\ previous = frame

\* C15: the background subtractor is built by a convert call with Background
\* selected that finds none, and by no other call; a convert call that finds
\* one keeps it and builds nothing; so only the first convert call after a
\* selection change can build one, however many frames follow.
C15_SubtractorBuiltOnce ==
    [][/\ (call'.op = "convert" /\ Selected = "Background")
            => /\ background_subtractor' # None
               /\ (lib' = "created") <=> (background_subtractor = None)
               /\ background_subtractor # None
                    => background_subtractor' = background_subtractor
               /\ call.op = "convert" => lib' # "created"
       /\ ~(call'.op = "convert" /\ Selected = "Background")
            => (background_subtractor' = background_subtractor /\ lib' # "created")]_vars

\* a second convert call in a row with Background selected has reused the model
C15_Witness ==
    /\ call.op = "convert"
    /\ call.after = "convert"
    /\ Selected = "Background"
    /\ lib = ""
    /\ background_subtractor # None

\* C16: with Optical Flow selected, a successful convert call stores the
\* current gray frame as previous and the tracked new points as points, and
\* its output is the frame overlaid with the whole mask; when it did not
\* re-seed, the mask keeps its shape and every trail segment it had, and gains
\* only the segments from the old points to their new places.  The mask loses
\* segments or changes shape only in an Optical Flow call that re-seeds.
C16_TrailAccumulates ==
    [][/\ (call'.op = "convert" /\ Selected = "Optical Flow" /\ lib' = "ok")
            => /\ previous' = Some(BGR2GRAY(frame'[1]))
               /\ ret'.val = Some(add(frame'[1], opt_flow'.points[1], opt_flow'.mask[1]))
               /\ (previous # None /\ previous[1].shape = BGR2GRAY(frame'[1]).shape)
                    => /\ opt_flow'.mask[1].shape = opt_flow.mask[1].shape
                       /\ opt_flow.mask[1].lines \subseteq opt_flow'.mask[1].lines
                       /\ (opt_flow'.mask[1].lines \ opt_flow.mask[1].lines)
                             \subseteq {<<Move(p), p>> : p \in opt_flow.points[1]}
                       /\ \A q \in opt_flow'.points[1] :
                             \E p \in opt_flow.points[1] :
                                 q = Move(p) /\ <<q, p>> \in opt_flow'.mask[1].lines
       /\ (opt_flow.mask # None
            /\ \/ opt_flow'.mask = None
               \/ opt_flow'.mask[1].shape # opt_flow.mask[1].shape
               \/ ~(opt_flow.mask[1].lines \subseteq opt_flow'.mask[1].lines))
            => /\ call'.op = "convert"
               /\ Selected = "Optical Flow"
               /\ previous = None \/ previous[1].shape # BGR2GRAY(frame'[1]).shape]_vars

\* a successful call that tracked no point has returned the frame overlaid
\* with the trail drawn by the calls before it
C16_Witness ==
    /\ call.op = "convert"
    /\ call.after = "convert"
    /\ Selected = "Optical Flow"
    /\ lib = "ok"
    /\ previous = Some(BGR2GRAY(frame[1]))
    /\ ret.val # None
    /\ ret.val[1].circles = {}
    /\ ret.val[1].lines # {}
    /\ ret.val[1].lines = opt_flow.mask[1].lines

Stateless ==
    {"Unchanged", "Canny", "Threshold", "Harris", "SIFT", "SURF", "ORB", "BRIEF",
     "Contours", "Blur", "Skin"}

\* the outcome of a stateless filter, read off lines 85-162 and 184-200 as a
\* function of the filter, the frame given and what the library reported
StatelessResult(name, f, l) ==
    LET gray == BGR2GRAY(f)
        op == CASE name = "Unchanged" -> "bgr"
                [] name = "Canny"     -> "Canny"
                [] name = "Threshold" -> "adaptiveThreshold"
                [] name = "Harris"    -> "cornerHarris"
                [] name \in {"SIFT", "SURF", "ORB", "BRIEF"} -> "drawKeypoints"
                [] name = "Contours"  -> "drawContours"
                [] name = "Blur"      -> "blur"
                [] name = "Skin"      -> "skin"
        shape == IF name \in {"Canny", "Threshold"} THEN gray.shape ELSE f.shape
    IN  IF l = "cv2.error"
            THEN IF name \in {"SIFT", "SURF"} THEN Returned(Some(f)) ELSE Raised("cv2.error")
            ELSE Returned(Some(Img(shape, op, f.a, 0)))

\* C17: convert with a stateless filter selected leaves previous, the
\* background subtractor and the optical-flow points and mask as they were,
\* and its outcome is a function of the filter, the input frame and the
\* library's report alone, whatever that state holds.
C17_StatelessFilters ==
    [][(call'.op = "convert" /\ Selected \in Stateless)
          => /\ previous' = previous
             /\ background_subtractor' = background_subtractor
             /\ opt_flow' = opt_flow
             /\ \E f \in Frames :
                    /\ f.shape = frame'[1].shape
                    /\ f.a = frame'[1].a
                    /\ ret' = StatelessResult(Selected, f, lib')]_vars

\* Blur has converted a frame in a session that holds a subtractor and a trail mask
C17_Witness ==
    /\ call.op = "convert"
    /\ Selected = "Blur"
    /\ ret.val # None
    /\ ret.val[1].op = "blur"
    /\ background_subtractor # None
    /\ opt_flow.mask # None
    /\ opt_flow.mask[1].lines # {}

\* C18: convert leaves current_filter and the last title as they were, on every
\* outcome of the transform; a step that changes either is a set_filter,
\* next_filter or last_filter call.
C18_ConvertKeepsSelection ==
    [][/\ call'.op = "convert" => (current_filter' = current_filter /\ title' = title)
       /\ (current_filter' # current_filter \/ title' # title)
            => call'.op \in SelectionCalls]_vars

\* convert has raised (ORB's detector failed) and the selection and title are those of ORB
C18_Witness ==
    /\ call.op = "convert"
    /\ ret.exc = "cv2.error"
    /\ Selected = "ORB"
    /\ current_filter = call.from
    /\ title = Title(current_filter)
====
